---- MODULE Spec2Model ----
(***************************************************************************)
(* Model of src/src/RPG_Risk_Model.py: the ReactorState physics kernel     *)
(* (update) and the scenario runner (simulate).                            *)
(*                                                                         *)
(* Reals are fixed-point integers with two decimals (x stands for          *)
(* x / Scale), rounded down after every multiplication or division.        *)
(* Instants are whole minutes after the grid start 2011-03-11 14:00.       *)
(* TLC integers are 32 bits wide, so products are split (FMul, FDiv) and   *)
(* the decay index, which exceeds 2^31, is kept in units of AlaricUnit.    *)
(***************************************************************************)
EXTENDS Integers, Sequences, FiniteSets, TLC

VARIABLES
    zeta,            \* self.zeta            water level [mm]
    core_integrity,  \* self.core_integrity
    rpv_integrity,   \* self.rpv_integrity
    heat_accum,      \* self.heat_accum
    v,               \* self.v               overtopping height
    call,            \* arguments of the latest update call
    loc,             \* local variables of the latest update call at return
    ret,             \* tuple returned by the latest update call
    n,               \* number of update calls made so far
    driver,          \* who drives the reactor: "simulate" or "caller"
    wall_h,          \* simulate: wall_h
    tsunami_h,       \* simulate: tsunami_h
    events,          \* simulate: events['quake'], events['tsunami']
    status,          \* simulate: status dict
    t_scram,         \* simulate: t_scram
    data,            \* simulate: rows appended so far
    pc               \* simulate: "loop" or "done"; "caller" otherwise

vars == <<zeta, core_integrity, rpv_integrity, heat_accum, v, call, loc, ret, n,
          driver, wall_h, tsunami_h, events, status, t_scram, data, pc>>

reactor == <<zeta, core_integrity, rpv_integrity, heat_accum, v>>

runner == <<wall_h, tsunami_h, events, status, t_scram, data>>

----------------------------------------------------------------------------
(* Number representation *)

Scale == 100

PowScale == 10000

AlaricUnit == 1000

None == -1

Max(a, b) == IF a >= b THEN a ELSE b

Abs(a) == IF a < 0 THEN -a ELSE a

\* Python truthiness of a number-or-None
Truthy(x) == x # None /\ x # 0

\* floor(a * b / Scale) without leaving 32 bits
FMul(a, b) == (a \div Scale) * b + ((a % Scale) * b) \div Scale

\* floor(a * Scale / b) without leaving 32 bits, b > 0
FDiv(a, b) == (a \div b) * Scale + ((a % b) * Scale) \div b

\* floor(a * b / c) without leaving 32 bits, c > 0
MulDiv(a, b, c) == (a \div c) * b + ((a % c) * b) \div c

----------------------------------------------------------------------------
(* Bounds and input sets *)

MaxCalls == 3

DtSet == {10 * Scale, 120 * Scale}

ScramSet == {None, Scale \div 2, 601 * Scale}

StatusSet == [active : BOOLEAN, emergency : BOOLEAN]

ImpactSet == {0, 830}

Scenarios == {<<570, 1400>>, <<1500, 1400>>, <<1500, 2500>>, <<1400, 1400>>}

QuakeTimes == {0, 46, 200}

TsunamiTimes == {30, 97, 1000}

----------------------------------------------------------------------------
(* ReactorState: calibration constants *)

zeta0 == 3500 * Scale

integrity0 == 100 * Scale

decay_base == 100 * Scale

boil_rate == 580

melt_rate == 90

melt_through_rate == 12

----------------------------------------------------------------------------
(* ReactorState.update, step by step *)

\* round(PowScale * t ** (-0.2)) for t = 1, 11, 21, ..., 1331 minutes
DecayCurve ==
  << 10000, 6190, 5439, 5032, 4758, 4555, 4395, 4263, 4152, 4057,
     3973, 3899, 3832, 3772, 3717, 3666, 3619, 3576, 3536, 3498,
     3462, 3429, 3397, 3367, 3339, 3312, 3286, 3261, 3238, 3215,
     3194, 3173, 3153, 3134, 3115, 3097, 3080, 3063, 3047, 3031,
     3016, 3001, 2986, 2972, 2959, 2946, 2933, 2920, 2908, 2896,
     2884, 2873, 2862, 2851, 2840, 2830, 2820, 2810, 2800, 2791,
     2781, 2772, 2763, 2754, 2746, 2737, 2729, 2721, 2713, 2705,
     2697, 2689, 2682, 2674, 2667, 2660, 2653, 2646, 2639, 2632,
     2626, 2619, 2613, 2607, 2600, 2594, 2588, 2582, 2576, 2571,
     2565, 2559, 2554, 2548, 2543, 2537, 2532, 2527, 2522, 2516,
     2511, 2506, 2501, 2497, 2492, 2487, 2482, 2478, 2473, 2469,
     2464, 2460, 2455, 2451, 2446, 2442, 2438, 2434, 2430, 2426,
     2422, 2418, 2414, 2410, 2406, 2402, 2398, 2394, 2391, 2387,
     2383, 2379, 2376, 2372 >>

\* t ** (-0.2), result scaled by PowScale; t is 1.0 + 10 k minutes
PowNeg02(t) == DecayCurve[((t - Scale) \div (10 * Scale)) + 1]

\* x ** 1.6 for the overtopping heights of the runs: 0, 8.3 and 10.0
Pow16(x) ==
  CASE x = 0 -> 0
    [] x = 830 -> 2955
    [] x = 1000 -> 3981

TVal(time_since_scram) ==
  IF Truthy(time_since_scram) THEN Max(time_since_scram, Scale) ELSE Scale

DecayHeat(time_since_scram) ==
  (decay_base * PowNeg02(TVal(time_since_scram))) \div PowScale

\* slip: active cooling removes 0.15 of the decay heat instead of 1.15
Cooling_Weak(st, decay_heat) ==
  IF st.active THEN (decay_heat * 15) \div 100
  ELSE IF st.emergency THEN (decay_heat * 10) \div 100
  ELSE 0

\* slip: emergency cooling removes 1.1 of the decay heat instead of 0.1
Cooling_EmergencyStrong(st, decay_heat) ==
  IF st.active THEN (decay_heat * 115) \div 100
  ELSE IF st.emergency THEN (decay_heat * 110) \div 100
  ELSE 0

Cooling(st, decay_heat) ==
  IF st.active THEN (decay_heat * 115) \div 100
  ELSE IF st.emergency THEN (decay_heat * 10) \div 100
  ELSE 0

ImpactLoad(st, vv) ==
  IF ~st.active THEN (Pow16(vv) * 5) \div 10 ELSE 0

DeltaP(cooling, decay_heat, impact_load) == cooling - (decay_heat + impact_load)

HeatDeficit(heat, delta_p, dt_min) == heat + FMul(Abs(delta_p), dt_min)

HeatSurplus(heat, delta_p, dt_min) == Max(0, heat - FMul(delta_p, dt_min))

TermA(heat) == FMul((heat * 8) \div 1000, boil_rate)

TermV(st, vv) ==
  IF ~st.active THEN (Pow16(vv) * 45) \div 10 ELSE 0

CouplingTerm(term_a, term_v) == (FMul(term_a, term_v) * 2) \div 100

\* slip: the coupling term is left out of the collapse slope
DZeta_NoCoupling(term_a, term_v, coupling, dt_min) ==
  0 - FMul(term_a + term_v, dt_min)

DZeta(term_a, term_v, coupling, dt_min) ==
  0 - FMul(term_a + term_v + coupling, dt_min)

\* slip: sign of the melt step
DCore_Heal(z, dt_min) ==
  IF z <= 0 THEN FMul(melt_rate, dt_min) ELSE 0

DCore(z, dt_min) ==
  IF z <= 0 THEN 0 - FMul(melt_rate, dt_min) ELSE 0

DRpv(c, dt_min) ==
  IF c < 20 * Scale THEN 0 - FMul(melt_through_rate, dt_min) ELSE 0

\* slip: no floor at 0
ClampIntegrity_NoFloor(x) == x

ClampIntegrity(x) == Max(0, x)

CurrentMass(z) == Max(z + 100 * Scale, 10 * Scale)

\* base_term * 500000.0 with base_term = (d_zeta_dt + d_core_dt * 20) /
\* current_mass, in whole units of AlaricUnit; multiplied before dividing
\* to keep the digits a float keeps
AlaricTerm(d_zeta_dt, d_core_dt, current_mass) ==
  MulDiv(d_zeta_dt + d_core_dt * 20, 500000 \div AlaricUnit, current_mass)

\* slip: the water level is stepped before the exposure check reads it
UpdateLocals_PostUpdate(dt_min, time_since_scram, st) ==
  LET decay_heat == DecayHeat(time_since_scram)
      cooling == Cooling(st, decay_heat)
      impact_load == ImpactLoad(st, v)
      delta_p == DeltaP(cooling, decay_heat, impact_load)
      heat == IF delta_p < 0 THEN HeatDeficit(heat_accum, delta_p, dt_min)
              ELSE HeatSurplus(heat_accum, delta_p, dt_min)
      term_a == IF delta_p < 0 THEN TermA(heat) ELSE 0
      term_v == IF delta_p < 0 THEN TermV(st, v) ELSE 0
      coupling == CouplingTerm(term_a, term_v)
      d_zeta_dt == IF delta_p < 0 THEN DZeta(term_a, term_v, coupling, dt_min) ELSE 0
      d_core_dt == DCore(zeta + d_zeta_dt, dt_min)
      d_rpv_dt == DRpv(core_integrity, dt_min)
      current_mass == CurrentMass(zeta + d_zeta_dt)
  IN  [decay_heat |-> decay_heat, cooling |-> cooling, impact_load |-> impact_load,
       delta_p |-> delta_p, heat |-> heat, term_a |-> term_a, term_v |-> term_v,
       coupling |-> coupling, d_zeta_dt |-> d_zeta_dt, d_core_dt |-> d_core_dt,
       d_rpv_dt |-> d_rpv_dt, current_mass |-> current_mass,
       alaric_term |-> AlaricTerm(d_zeta_dt, d_core_dt, current_mass)]

\* The locals of one update call, from the state before it
UpdateLocals(dt_min, time_since_scram, st) ==
  LET decay_heat == DecayHeat(time_since_scram)
      cooling == Cooling(st, decay_heat)
      impact_load == ImpactLoad(st, v)
      delta_p == DeltaP(cooling, decay_heat, impact_load)
      heat == IF delta_p < 0 THEN HeatDeficit(heat_accum, delta_p, dt_min)
              ELSE HeatSurplus(heat_accum, delta_p, dt_min)
      term_a == IF delta_p < 0 THEN TermA(heat) ELSE 0
      term_v == IF delta_p < 0 THEN TermV(st, v) ELSE 0
      coupling == CouplingTerm(term_a, term_v)
      d_zeta_dt == IF delta_p < 0 THEN DZeta(term_a, term_v, coupling, dt_min) ELSE 0
      d_core_dt == DCore(zeta, dt_min)
      d_rpv_dt == DRpv(core_integrity, dt_min)
      current_mass == CurrentMass(zeta + d_zeta_dt)
  IN  [decay_heat |-> decay_heat, cooling |-> cooling, impact_load |-> impact_load,
       delta_p |-> delta_p, heat |-> heat, term_a |-> term_a, term_v |-> term_v,
       coupling |-> coupling, d_zeta_dt |-> d_zeta_dt, d_core_dt |-> d_core_dt,
       d_rpv_dt |-> d_rpv_dt, current_mass |-> current_mass,
       alaric_term |-> AlaricTerm(d_zeta_dt, d_core_dt, current_mass)]

\* The tuple update returns
UpdateReturn(l) ==
  [zeta |-> zeta + l.d_zeta_dt,
   core |-> ClampIntegrity(core_integrity + l.d_core_dt),
   rpv |-> ClampIntegrity(rpv_integrity + l.d_rpv_dt),
   dp |-> l.delta_p,
   alaric |-> l.alaric_term]

\* ReactorState.update(dt_min, time_since_scram, status)
update(dt_min, time_since_scram, st) ==
  LET l == UpdateLocals(dt_min, time_since_scram, st)
      r == UpdateReturn(l)
  IN  /\ heat_accum' = l.heat
      /\ zeta' = r.zeta
      /\ core_integrity' = r.core
      /\ rpv_integrity' = r.rpv
      /\ v' = v
      /\ loc' = l
      /\ ret' = r
      /\ call' = [dt_min |-> dt_min, time_since_scram |-> time_since_scram, status |-> st]
      /\ n' = n + 1

----------------------------------------------------------------------------
(* simulate *)

NumTicks == 133

StepMin == 10

\* times[i], in minutes after 14:00
TimeAt(i) == (i - 1) * StepMin

ImpactPotential(th, wh) == Max(0, th - wh)

\* slip: a tsunami level with the wall top counts as a breach
Breached_AtTop(th, wh) == th >= wh

Breached(th, wh) == th > wh

\* slip: the clock starts at 0, which the loop then reads as "no clock"
ScramInit_Zero(t, quake, ts) ==
  IF t >= quake /\ ts = None THEN 0 ELSE ts

ScramInit(t, quake, ts) ==
  IF t >= quake /\ ts = None THEN Scale ELSE ts

\* slip: the station blackout after 8 hours is left out
StatusAt_NoBlackout(t, tsunami, th, wh, st) ==
  IF t >= tsunami /\ Breached(th, wh)
  THEN [active |-> FALSE, emergency |-> TRUE]
  ELSE st

StatusAt(t, tsunami, th, wh, st) ==
  IF t >= tsunami /\ Breached(th, wh)
  THEN [active |-> FALSE,
        emergency |-> IF t >= tsunami + 8 * 60 THEN FALSE ELSE TRUE]
  ELSE st

ScramStep(ts) == IF Truthy(ts) THEN ts + StepMin * Scale ELSE ts

Row(t, r) ==
  [time |-> t, zeta |-> r.zeta, core |-> r.core, rpv |-> r.rpv,
   dp |-> r.dp, alaric |-> r.alaric]

\* One iteration of the for loop of simulate
Tick ==
  /\ driver = "simulate"
  /\ pc = "loop"
  /\ n < NumTicks
  /\ LET t == TimeAt(n + 1)
         ts == ScramStep(ScramInit(t, events.quake, t_scram))
         st == StatusAt(t, events.tsunami, tsunami_h, wall_h, status)
     IN  /\ t_scram' = ts
         /\ status' = st
         /\ update(StepMin * Scale, ts, st)
         /\ data' = Append(data, Row(t, ret'))
  /\ UNCHANGED <<driver, wall_h, tsunami_h, events, pc>>

\* The loop is exhausted: simulate returns the rows
Return ==
  /\ driver = "simulate"
  /\ pc = "loop"
  /\ n = NumTicks
  /\ pc' = "done"
  /\ UNCHANGED <<reactor, call, loc, ret, n, driver, runner>>

\* Any other caller of ReactorState.update
Update ==
  /\ driver = "caller"
  /\ n < MaxCalls
  /\ \E dt_min \in DtSet, time_since_scram \in ScramSet, st \in StatusSet :
        update(dt_min, time_since_scram, st)
  /\ UNCHANGED <<driver, runner, pc>>

NoCall == [dt_min |-> 0, time_since_scram |-> None,
           status |-> [active |-> TRUE, emergency |-> FALSE]]

NoLocals ==
  [decay_heat |-> 0, cooling |-> 0, impact_load |-> 0, delta_p |-> 0, heat |-> 0,
   term_a |-> 0, term_v |-> 0, coupling |-> 0, d_zeta_dt |-> 0, d_core_dt |-> 0,
   d_rpv_dt |-> 0, current_mass |-> 0, alaric_term |-> 0]

NoReturn == [zeta |-> zeta0, core |-> integrity0, rpv |-> integrity0, dp |-> 0, alaric |-> 0]

\* ReactorState.__init__(v_impact)
InitReactor(v_impact) ==
  /\ zeta = zeta0
  /\ core_integrity = integrity0
  /\ rpv_integrity = integrity0
  /\ heat_accum = 0
  /\ v = v_impact
  /\ call = NoCall
  /\ loc = NoLocals
  /\ ret = NoReturn
  /\ n = 0

\* simulate(wall_h, tsunami_h, events) up to the loop
InitSimulate ==
  /\ driver = "simulate"
  /\ \E sc \in Scenarios : wall_h = sc[1] /\ tsunami_h = sc[2]
  /\ events \in [quake : QuakeTimes, tsunami : TsunamiTimes]
  /\ InitReactor(ImpactPotential(tsunami_h, wall_h))
  /\ status = [active |-> TRUE, emergency |-> FALSE]
  /\ t_scram = None
  /\ data = <<>>
  /\ pc = "loop"

\* a bare ReactorState(v_impact) in the hands of another caller
InitCaller ==
  /\ driver = "caller"
  /\ \E v_impact \in ImpactSet : InitReactor(v_impact) /\ tsunami_h = v_impact
  /\ wall_h = 0
  /\ events = [quake |-> 0, tsunami |-> 0]
  /\ status = [active |-> TRUE, emergency |-> FALSE]
  /\ t_scram = None
  /\ data = <<>>
  /\ pc = "caller"

Init == InitSimulate \/ InitCaller

Next == Tick \/ Return \/ Update

Spec == Init /\ [][Next]_vars

----------------------------------------------------------------------------
(* Properties *)

Simulating == driver = "simulate"

\* The run of df_past: wall 5.7 m, tsunami 14.0 m, quake 14:46, tsunami 15:37
Historical ==
  /\ Simulating
  /\ wall_h = 570 /\ tsunami_h = 1400
  /\ events = [quake |-> 46, tsunami |-> 97]

Rows == 1..Len(data)

\* C1: after any sequence of update calls, and at every tick of simulate,
\* 0 <= coreIntegrity <= 100, 0 <= vesselIntegrity <= 100 and
\* accumulatedHeat >= 0.
C1_IntegrityBounds ==
  /\ 0 <= core_integrity /\ core_integrity <= 100 * Scale
  /\ 0 <= rpv_integrity /\ rpv_integrity <= 100 * Scale
  /\ heat_accum >= 0
  /\ ret.core = core_integrity /\ ret.rpv = rpv_integrity

\* both floors have acted: the melt steps would have taken the integrities below 0
C1_Witness ==
  /\ n > 0
  /\ core_integrity = 0 /\ loc.d_core_dt < 0
  /\ rpv_integrity = 0 /\ loc.d_rpv_dt < 0
  /\ heat_accum > 0

\* C2: in a breached run the status passed to update is (active, not
\* emergency) before tsunami-time, (not active, emergency) from tsunami-time
\* until 8 hours later, and (not active, not emergency) from then on; the two
\* flags are never both true.
C2_StatusSchedule ==
  (Simulating /\ tsunami_h > wall_h /\ n > 0) =>
    LET t == (n - 1) * 10 IN
      /\ call.status = status
      /\ ~(call.status.active /\ call.status.emergency)
      /\ t < events.tsunami =>
           call.status = [active |-> TRUE, emergency |-> FALSE]
      /\ (events.tsunami <= t /\ t < events.tsunami + 480) =>
           call.status = [active |-> FALSE, emergency |-> TRUE]
      /\ t >= events.tsunami + 480 =>
           call.status = [active |-> FALSE, emergency |-> FALSE]

\* a breached run that went through all three phases
C2_Witness ==
  /\ Simulating /\ tsunami_h > wall_h /\ pc = "done"
  /\ events.tsunami > 0
  /\ (n - 1) * 10 >= events.tsunami + 480
  /\ call.status = [active |-> FALSE, emergency |-> FALSE]

\* C3: when the wall is not breached, impactPotential is 0 and at every tick
\* status is active, the deficit branch is not taken, waterLevel stays 3500,
\* both integrities stay 100 and accumulatedHeat stays 0.
C3_NoBreachStable ==
  (Simulating /\ tsunami_h <= wall_h) =>
    /\ v = 0
    /\ status.active
    /\ n > 0 => (call.status.active /\ loc.delta_p >= 0 /\ loc.d_zeta_dt = 0)
    /\ zeta = 3500 * Scale
    /\ core_integrity = 100 * Scale /\ rpv_integrity = 100 * Scale
    /\ heat_accum = 0
    /\ \A i \in Rows :
         /\ data[i].zeta = 3500 * Scale
         /\ data[i].core = 100 * Scale /\ data[i].rpv = 100 * Scale
         /\ data[i].dp >= 0

\* a finished run whose tsunami reached exactly the top of the wall
C3_Witness ==
  /\ Simulating /\ pc = "done" /\ Len(data) = 133
  /\ tsunami_h = wall_h
  /\ events.tsunami = 30 /\ events.quake = 46

\* the first tick at or after quake-time
FirstQuakeTick ==
  CHOOSE i \in 1..133 :
    /\ (i - 1) * 10 >= events.quake
    /\ \A j \in 1..(i - 1) : (j - 1) * 10 < events.quake

\* C4, as claimed: update receives no elapsed time before quake-time, the
\* initial clock value on the first tick at or after quake-time, and the
\* initial value plus n steps of 10 minutes on the n-th tick after it.
C4_ClockStartsUnstepped ==
  (Simulating /\ n > 0) =>
    IF n < FirstQuakeTick
    THEN call.time_since_scram = None
    ELSE call.time_since_scram = Scale + (n - FirstQuakeTick) * 10 * Scale

\* C4, amended: the first tick at or after quake-time sets the clock to 1.0
\* and steps it in the same tick, so update receives 11.0 on that tick and
\* 11.0 plus n steps of 10 minutes on the n-th tick after it.
C4_ClockSteppedOnInit ==
  (Simulating /\ n > 0) =>
    /\ call.time_since_scram = t_scram
    /\ IF n < FirstQuakeTick
       THEN call.time_since_scram = None
       ELSE call.time_since_scram = 11 * Scale + (n - FirstQuakeTick) * 10 * Scale

\* the tick that initialized the clock, after ticks without a clock
C4_Witness ==
  /\ Simulating
  /\ FirstQuakeTick > 1
  /\ n = FirstQuakeTick
  /\ call.time_since_scram = 11 * Scale

\* C5: the returned decayIndex is
\* ((dWater/dtMinutes) + (dCore/dtMinutes)*20) / mass * 500000, built from
\* per-minute rates, with mass = max(post-update waterLevel + 100, 10).
C5_DecayIndexFromRates ==
  n > 0 =>
    LET dWater == ret.zeta - (ret.zeta - loc.d_zeta_dt)
        dCore == loc.d_core_dt
        mass == Max(ret.zeta + 100 * Scale, 10 * Scale)
        rate == FDiv(dWater, call.dt_min) + FDiv(dCore, call.dt_min) * 20
    IN  ret.alaric = MulDiv(rate, 500, mass)

\* C6: in the historical run the first tick with a negative energyBalance is
\* after quake-time and strictly earlier than the first tick with
\* waterLevel <= 0 and than the first tick with coreIntegrity < 100.
C6_EarlyWarning ==
  Historical =>
    /\ \A i \in Rows : data[i].dp < 0 => data[i].time > events.quake
    /\ \A i \in Rows :
         (data[i].zeta <= 0 \/ data[i].core < 100 * Scale) =>
           \E j \in 1..(i - 1) : data[j].dp < 0
    /\ pc = "done" => \E i \in Rows : data[i].dp < 0

\* the historical run finished with the fuel exposed and the core damaged
C6_Witness ==
  /\ Historical /\ pc = "done"
  /\ \E i \in Rows : data[i].zeta <= 0
  /\ \E i \in Rows : data[i].core < 100 * Scale
  /\ \E i \in Rows : data[i].dp < 0 /\ data[i].zeta > 0

\* C7: once waterLevel <= 0 has been seen it stays so and coreIntegrity never
\* increases from one tick to the next; once coreIntegrity < 20 has been seen
\* it stays so and vesselIntegrity never increases.
C7_NonIncreasing ==
  [][/\ zeta <= 0 => (zeta' <= 0 /\ core_integrity' <= core_integrity)
     /\ core_integrity < 20 * Scale =>
          (core_integrity' < 20 * Scale /\ rpv_integrity' <= rpv_integrity)]_vars

\* a call made with the fuel exposed and the core below 20
C7_Witness ==
  /\ n > 0
  /\ ret.zeta - loc.d_zeta_dt <= 0
  /\ loc.d_core_dt < 0 /\ loc.d_rpv_dt < 0
  /\ rpv_integrity < 100 * Scale

\* C8, as claimed: coreIntegrity is decreased by meltRate*dt if and only if
\* waterLevel was <= 0 before the call, and vesselIntegrity is decreased by
\* meltThroughRate*dt if and only if coreIntegrity was < 20 before the call.
C8_DecreasedIffBelow ==
  [][n' = n + 1 =>
       /\ (zeta <= 0) <=>
            (core_integrity' = core_integrity - FMul(90, call'.dt_min)
               /\ core_integrity' < core_integrity)
       /\ (core_integrity < 20 * Scale) <=>
            (rpv_integrity' = rpv_integrity - FMul(12, call'.dt_min)
               /\ rpv_integrity' < rpv_integrity)]_vars

\* C8, amended: coreIntegrity becomes max(0, coreIntegrity - meltRate*dt) if
\* waterLevel was <= 0 before the call and is unchanged otherwise;
\* vesselIntegrity becomes max(0, vesselIntegrity - meltThroughRate*dt) if
\* coreIntegrity was < 20 before the call and is unchanged otherwise. So
\* coreIntegrity is unchanged on the tick where waterLevel crosses to <= 0
\* and vesselIntegrity on the tick where coreIntegrity drops below 20.
C8_PreUpdateChecks ==
  [][n' = n + 1 =>
       /\ core_integrity' =
            IF zeta <= 0
            THEN Max(0, core_integrity - FMul(90, call'.dt_min))
            ELSE core_integrity
       /\ rpv_integrity' =
            IF core_integrity < 20 * Scale
            THEN Max(0, rpv_integrity - FMul(12, call'.dt_min))
            ELSE rpv_integrity
       /\ (zeta > 0 /\ zeta' <= 0) => core_integrity' = core_integrity
       /\ (core_integrity >= 20 * Scale /\ core_integrity' < 20 * Scale) =>
            rpv_integrity' = rpv_integrity]_vars

\* the call in which the water level crossed to <= 0 left the core intact
C8_Witness ==
  /\ n > 0
  /\ ret.zeta <= 0 /\ ret.zeta - loc.d_zeta_dt > 0
  /\ loc.d_core_dt = 0
  /\ core_integrity = 100 * Scale

\* C9: a call with balance >= 0 leaves waterLevel unchanged and sets
\* accumulatedHeat to max(0, accumulatedHeat - balance*dt); a call with
\* balance < 0 adds |balance|*dt to accumulatedHeat and lowers waterLevel by
\* (termInternal + termExternal + coupling)*dt.
C9_BranchEffects ==
  [][n' = n + 1 =>
       LET balance == ret'.dp
           dt == call'.dt_min
           termInternal == FMul((heat_accum' * 8) \div 1000, 580)
           termExternal == IF call'.status.active THEN 0
                           ELSE (Pow16(v) * 45) \div 10
           coupling == (FMul(termInternal, termExternal) * 2) \div 100
       IN  IF balance >= 0
           THEN /\ zeta' = zeta
                /\ heat_accum' = Max(0, heat_accum - FMul(balance, dt))
           ELSE /\ heat_accum' = heat_accum + FMul(0 - balance, dt)
                /\ zeta' = zeta - FMul(termInternal + termExternal + coupling, dt)
                /\ zeta' < zeta]_vars

\* a surplus call that paid back part of the heat debt of earlier deficit calls
C9_Witness ==
  /\ n > 1
  /\ ret.dp > 0
  /\ heat_accum > 0
  /\ zeta < 3500 * Scale /\ loc.d_zeta_dt = 0

\* C10: the returned balance is negative if and only if status.active is
\* false and strictly positive when it is true; in simulate the balance is
\* negative exactly on the ticks at or after tsunami-time of a breached run.
C10_BalanceSign ==
  /\ n > 0 =>
       /\ ret.dp < 0 <=> ~call.status.active
       /\ call.status.active => ret.dp > 0
  /\ Simulating =>
       \A i \in Rows :
         data[i].dp < 0 <=> (tsunami_h > wall_h /\ data[i].time >= events.tsunami)

\* a finished breached run that had ticks on both sides of tsunami-time
C10_Witness ==
  /\ Simulating /\ pc = "done" /\ tsunami_h > wall_h
  /\ \E i \in Rows : data[i].dp < 0
  /\ \E i \in Rows : data[i].dp > 0
  /\ ret.dp < 0

====
